---- MODULE Spec2Model ----
(***************************************************************************)
(* A model of src/src/ast2.rs: the assembly parser `parse` (a chumsky      *)
(* combinator grammar) and the two bit-string decoders parse_hex_slice and *)
(* parse_bin_slice.                                                        *)
(*                                                                         *)
(* A source text is a sequence of one-character strings.  Every combinator *)
(* of the grammar is an operator P(s, i) that runs the parser on text s at *)
(* position i (1-based) and returns [ok, pos, val, errs]: whether it       *)
(* matched, the position after the match, its output, and the diagnostics  *)
(* its recoveries emitted (chumsky's secondary errors, in emission order). *)
(* A failed parser returns no diagnostics: chumsky's rewind truncates the  *)
(* secondary errors emitted since the marker.  Source spans are left out.  *)
(***************************************************************************)
EXTENDS Integers, Sequences, FiniteSets, TLC

VARIABLES src, prog, pc, output, errors, pat, bits, bytes, cell

vars == <<src, prog, pc, output, errors, pat, bits, bytes, cell>>

-----------------------------------------------------------------------------
(* Characters *)

EOF == "EOF"

Ch(s, i) == IF i >= 1 /\ i <= Len(s) THEN s[i] ELSE EOF

Upper == {"A", "B", "C", "D", "E", "F", "G", "H", "I", "J", "K", "L", "M",
          "N", "O", "P", "Q", "R", "S", "T", "U", "V", "W", "X", "Y", "Z"}

DecDigits == {"0", "1", "2", "3", "4", "5", "6", "7", "8", "9"}

HexLower == {"a", "b", "c", "d", "e", "f"}

HexUpper == {"A", "B", "C", "D", "E", "F"}

\* char::is_whitespace, on the characters a text of the model can hold
Whitespace == {" ", "\n", "\t", "\r"}

\* text::newline: "\r\n", "\n" or "\r"
Newline == {"\n", "\r"}

\* a character standing for any non-ASCII character
NonAscii == {"U+00E9"}

\* char::is_digit(radix) for the radixes the grammar uses
is_digit(c, radix) ==
    CASE radix = 2  -> c \in {"0", "1"}
      [] radix = 10 -> c \in DecDigits
      [] radix = 16 -> c \in DecDigits \cup HexLower \cup HexUpper

\* char::to_digit(16)
DigitVal(c) ==
    CASE c = "0" -> 0 [] c = "1" -> 1 [] c = "2" -> 2 [] c = "3" -> 3
      [] c = "4" -> 4 [] c = "5" -> 5 [] c = "6" -> 6 [] c = "7" -> 7
      [] c = "8" -> 8 [] c = "9" -> 9
      [] c \in {"a", "A"} -> 10 [] c \in {"b", "B"} -> 11
      [] c \in {"c", "C"} -> 12 [] c \in {"d", "D"} -> 13
      [] c \in {"e", "E"} -> 14 [] c \in {"f", "F"} -> 15

\* the value of the digits s[from .. to-1] in the radix (from_str_radix)
RECURSIVE DigitsVal(_, _, _, _)
DigitsVal(s, from, to, radix) ==
    IF to <= from THEN 0
    ELSE DigitsVal(s, from, to - 1, radix) * radix + DigitVal(s[to - 1])

-----------------------------------------------------------------------------
(* Parser results *)

Fail == [ok |-> FALSE, pos |-> 0, val |-> <<>>, errs |-> <<>>]

Ok(p, v, e) == [ok |-> TRUE, pos |-> p, val |-> v, errs |-> e]

\* a diagnostic, named after the parser whose recovery emitted it
Diag(by) == [by |-> by]

\* InstrArgValue
NatV(n) == [kind |-> "Nat", n |-> n, block |-> <<>>, bits |-> 0, data |-> <<>>]

SRegV(n) == [kind |-> "SReg", n |-> n, block |-> <<>>, bits |-> 0, data |-> <<>>]

CRegV(n) == [kind |-> "CReg", n |-> n, block |-> <<>>, bits |-> 0, data |-> <<>>]

SliceV(c) == [kind |-> "Slice", n |-> 0, block |-> <<>>, bits |-> c.bits, data |-> c.data]

BlockV(is) == [kind |-> "Block", n |-> 0, block |-> is, bits |-> 0, data |-> <<>>]

InvalidV == [kind |-> "Invalid", n |-> 0, block |-> <<>>, bits |-> 0, data |-> <<>>]

\* Instr
Instr(ident, args) == [ident |-> ident, args |-> args]

-----------------------------------------------------------------------------
(* Primitive scanners *)

\* the position after the longest run of characters satisfying a class,
\* any().filter(..).repeated(); the class is given as the set of characters
\* that stop the run (EOF always stops it)
RECURSIVE SkipUntil(_, _, _)
SkipUntil(s, i, stop) ==
    IF i > Len(s) \/ s[i] \in stop THEN i ELSE SkipUntil(s, i + 1, stop)

\* the whitespace run of padded()
RECURSIVE SkipWs(_, _)
SkipWs(s, i) ==
    IF i <= Len(s) /\ s[i] \in Whitespace THEN SkipWs(s, i + 1) ELSE i

\* the run of digits of the radix
RECURSIVE SkipDigits(_, _, _)
SkipDigits(s, i, radix) ==
    IF i <= Len(s) /\ is_digit(s[i], radix) THEN SkipDigits(s, i + 1, radix) ELSE i

\* text::int(radix): a non-zero digit followed by digits, or a single zero
\* (val: the position where the digits start)
text_int(s, i, radix) ==
    LET c == Ch(s, i) IN
    IF c # EOF /\ is_digit(c, radix) /\ c # "0"
    THEN Ok(SkipDigits(s, i + 1, radix), i, <<>>)
    ELSE IF c = "0" THEN Ok(i + 1, i, <<>>)
    ELSE Fail

\* is_instr_ident_char
is_instr_ident_char(c, ext) ==
    c \in Upper \/ c \in DecDigits \/ c = "#" \/ c = "_" \/ (ext /\ c = ":")

RECURSIVE SkipIdent(_, _)
SkipIdent(s, i) ==
    IF i <= Len(s) /\ is_instr_ident_char(s[i], TRUE) THEN SkipIdent(s, i + 1) ELSE i

\* instr_ident: the slice of the mnemonic
instr_ident(s, i) ==
    IF i <= Len(s) /\ is_instr_ident_char(s[i], FALSE)
    THEN LET e == SkipIdent(s, i + 1) IN Ok(e, SubSeq(s, i, e - 1), <<>>)
    ELSE Fail

-----------------------------------------------------------------------------
(* Numeric literal *)

\* the `number` choice of nat: 0x hex, 0b binary, decimal, in this order
number(s, i) ==
    LET hex == text_int(s, i + 2, 16)
        bin == text_int(s, i + 2, 2)
        dec == text_int(s, i, 10)
    IN  IF Ch(s, i) = "0" /\ Ch(s, i + 1) = "x" /\ hex.ok
        THEN Ok(hex.pos, DigitsVal(s, i + 2, hex.pos, 16), <<>>)
        ELSE IF Ch(s, i) = "0" /\ Ch(s, i + 1) = "b" /\ bin.ok
        THEN Ok(bin.pos, DigitsVal(s, i + 2, bin.pos, 2), <<>>)
        ELSE IF dec.ok
        THEN Ok(dec.pos, DigitsVal(s, i, dec.pos, 10), <<>>)
        ELSE Fail

\* nat: '-' number negated, else number
nat(s, i) ==
    LET neg == number(s, i + 1) IN
    IF Ch(s, i) = "-" /\ neg.ok
    THEN Ok(neg.pos, 0 - neg.val, <<>>)
    ELSE number(s, i)

-----------------------------------------------------------------------------
(* Registers *)

I16Max == 32767

U8Max == 255

\* idx of stack_register: text::int(10) then i16::from_str
sreg_idx(s, i) ==
    LET d == text_int(s, i, 10) IN
    IF d.ok /\ DigitsVal(s, i, d.pos, 10) <= I16Max
    THEN Ok(d.pos, DigitsVal(s, i, d.pos, 10), <<>>)
    ELSE Fail

\* the parenthesized form after "s(": '-' idx ')', recovered by
\* until_eof_or_paren
sreg_paren(s, i) ==
    LET idx == sreg_idx(s, i + 1)
        e   == SkipUntil(s, i, {")", "\n"})
    IN  IF Ch(s, i) = "-" /\ idx.ok /\ Ch(s, idx.pos) = ")"
        THEN Ok(idx.pos + 1, SRegV(0 - idx.val), <<>>)
        ELSE Ok(IF Ch(s, e) = ")" THEN e + 1 ELSE e, InvalidV,
                <<Diag("stack_register")>>)

\* stack_register
stack_register(s, i) ==
    LET idx == sreg_idx(s, i + 1) IN
    IF Ch(s, i) # "s" THEN Fail
    ELSE IF Ch(s, i + 1) = "(" THEN sreg_paren(s, i + 2)
    ELSE IF idx.ok THEN Ok(idx.pos, SRegV(idx.val), <<>>)
    ELSE Ok(SkipUntil(s, i + 1, Whitespace \cup {","}), InvalidV,
            <<Diag("stack_register")>>)

\* the range check of control_register's try_map
creg_valid(n) == (0 <= n /\ n <= 5) \/ n = 7

\* control_register
control_register(s, i) ==
    LET d == text_int(s, i + 1, 10)
        n == DigitsVal(s, i + 1, d.pos, 10)
    IN  IF Ch(s, i) # "c" THEN Fail
        ELSE IF d.ok /\ n <= U8Max /\ creg_valid(n)
        THEN Ok(d.pos, CRegV(n), <<>>)
        ELSE Ok(SkipUntil(s, i + 1, Whitespace \cup {","}), InvalidV,
                <<Diag("control_register")>>)

-----------------------------------------------------------------------------
(* Bit-string slices *)

\* 128 * 2, the longest digit run parse_hex_slice accepts
MaxHexDigits == 256

\* the length of parse_bin_slice's byte buffer
BinBufLen == 128

\* everscale_types::cell::MAX_BIT_LEN, the most bits a cell holds
MAX_BIT_LEN == 1023

U16Mod == 65536

Pow2(k) ==
    CASE k = 0 -> 1 [] k = 1 -> 2 [] k = 2 -> 4 [] k = 3 -> 8
      [] k = 4 -> 16 [] k = 5 -> 32 [] k = 6 -> 64 [] k = 7 -> 128

\* u8::trailing_zeros
RECURSIVE trailing_zeros(_)
trailing_zeros(b) ==
    IF b = 0 THEN 8 ELSE IF b % 2 = 1 THEN 0 ELSE 1 + trailing_zeros(b \div 2)

\* bit k (from 0, most significant bit of byte 0 first) of a byte buffer
BitAt(buf, k) == (buf[(k \div 8) + 1] \div Pow2(7 - (k % 8))) % 2

\* a cell: the first n bits of the buffer
Cell(buf, n) == [bits |-> n, data |-> [k \in 1..n |-> BitAt(buf, k - 1)]]

\* the outcome of a slice decoder: a cell, or the SliceError it returned;
\* underflow records that the u16 bit count was decremented below zero
\* (a panic in a build with overflow checks, a wrap-around otherwise)
SliceOk(c, uf) == [ok |-> TRUE, bits |-> c.bits, data |-> c.data, err |-> "", underflow |-> uf]

SliceErr(e) == [ok |-> FALSE, bits |-> 0, data |-> <<>>, err |-> e, underflow |-> FALSE]

\* CellBuilder::store_raw then build: fails past the cell's capacity, stores
\* at most the bits the buffer holds
store_raw(buf, n, uf) ==
    IF n > MAX_BIT_LEN THEN [SliceErr("CellError") EXCEPT !.underflow = uf]
    ELSE SliceOk(Cell(buf, IF n > 8 * Len(buf) THEN 8 * Len(buf) ELSE n), uf)

\* hex_char
is_hex_char(c) == c \in DecDigits \cup HexLower \cup HexUpper

\* hex::decode of an even-length digit run
hex_decode(s) ==
    [k \in 1..(Len(s) \div 2) |-> 16 * DigitVal(s[2 * k - 1]) + DigitVal(s[2 * k])]

\* tag_scan with the completion bit itself not subtracted
RECURSIVE tag_scan_keeps_tag_bit(_, _, _, _)
tag_scan_keeps_tag_bit(buf, k, n, uf) ==
    IF k = 0 THEN [bits |-> n, underflow |-> uf]
    ELSE IF buf[k] = 0
    THEN tag_scan_keeps_tag_bit(buf, k - 1, (n - 8) % U16Mod, uf \/ n < 8)
    ELSE [bits |-> (n - trailing_zeros(buf[k])) % U16Mod,
          underflow |-> uf \/ n < trailing_zeros(buf[k])]

\* the tag-mode scan, bytes k, k-1, .., 1 of the buffer: the bit count left
\* and whether a subtraction went below zero
RECURSIVE tag_scan(_, _, _, _)
tag_scan(buf, k, n, uf) ==
    IF k = 0 THEN [bits |-> n, underflow |-> uf]
    ELSE IF buf[k] = 0
    THEN tag_scan(buf, k - 1, (n - 8) % U16Mod, uf \/ n < 8)
    ELSE [bits |-> (n - (1 + trailing_zeros(buf[k]))) % U16Mod,
          underflow |-> uf \/ n < 1 + trailing_zeros(buf[k])]

\* hex_initial_bits without the reset of line 281
hex_initial_bits_no_reset(nbytes, half, with_tag) ==
    nbytes * 8 + (IF half THEN 4 ELSE 0)

\* the bit count before the tag-mode scan (lines 274-281)
hex_initial_bits(nbytes, half, with_tag) ==
    IF with_tag THEN (nbytes + (IF half THEN 1 ELSE 0)) * 8
    ELSE nbytes * 8 + (IF half THEN 4 ELSE 0)

\* parse_hex_slice
parse_hex_slice(str) ==
    LET with_tag == Len(str) > 0 /\ str[Len(str)] = "_"
        s1       == IF with_tag THEN SubSeq(str, 1, Len(str) - 1) ELSE str
        half     == Len(s1) % 2 # 0
        s2       == IF half THEN SubSeq(s1, 1, Len(s1) - 1) ELSE s1
        full     == hex_decode(s2)
        buf      == IF half THEN Append(full, DigitVal(s1[Len(s1)]) * 16) ELSE full
        n0       == hex_initial_bits(Len(full), half, with_tag)
        scan     == IF with_tag THEN tag_scan(buf, Len(buf), n0, FALSE)
                    ELSE [bits |-> n0, underflow |-> FALSE]
    IN  IF \E k \in 1..Len(str) : str[k] \in NonAscii THEN SliceErr("NonAscii")
        ELSE IF half /\ ~is_hex_char(s1[Len(s1)]) THEN SliceErr("InvalidHex")
        ELSE IF Len(s2) > MaxHexDigits THEN SliceErr("TooLong")
        ELSE IF \E k \in 1..Len(s2) : ~is_hex_char(s2[k]) THEN SliceErr("InvalidHexFull")
        ELSE store_raw(buf, scan.bits, scan.underflow)

\* the state of parse_bin_slice's loop: the bit count, the buffer, and how
\* the loop stands: "run", or the way it ended ("InvalidBin", "TooLong",
\* "panic" for an index past the buffer)
BinStart == [bits |-> 0, bytes |-> [k \in 1..BinBufLen |-> 0], res |-> "run"]

\* bin_step packing the least significant bit first
bin_step_lsb_first(st, c) ==
    LET idx   == st.bits \div 8
        value == IF c = "1" THEN 1 ELSE 0
        old   == st.bytes[idx + 1]
        mask  == value * Pow2(st.bits % 8)
        new   == IF (old \div Pow2(st.bits % 8)) % 2 = 1 THEN old ELSE old + mask
    IN  IF c \notin {"0", "1"} THEN [st EXCEPT !.res = "InvalidBin"]
        ELSE IF idx >= BinBufLen THEN [st EXCEPT !.res = "panic"]
        ELSE [bits  |-> st.bits + 1,
              bytes |-> [st.bytes EXCEPT ![idx + 1] = new],
              res   |-> IF st.bits + 1 > MAX_BIT_LEN THEN "TooLong" ELSE "run"]

\* one iteration of the loop, on character c
bin_step(st, c) ==
    LET idx   == st.bits \div 8
        value == IF c = "1" THEN 1 ELSE 0
        old   == st.bytes[idx + 1]
        mask  == value * Pow2(7 - (st.bits % 8))
        new   == IF (old \div Pow2(7 - (st.bits % 8))) % 2 = 1 THEN old ELSE old + mask
    IN  IF c \notin {"0", "1"} THEN [st EXCEPT !.res = "InvalidBin"]
        ELSE IF idx >= BinBufLen THEN [st EXCEPT !.res = "panic"]
        ELSE [bits  |-> st.bits + 1,
              bytes |-> [st.bytes EXCEPT ![idx + 1] = new],
              res   |-> IF st.bits + 1 > MAX_BIT_LEN THEN "TooLong" ELSE "run"]

\* the loop over s[k ..]
RECURSIVE bin_loop(_, _, _)
bin_loop(st, s, k) ==
    IF k > Len(s) \/ st.res # "run" THEN st ELSE bin_loop(bin_step(st, s[k]), s, k + 1)

\* what parse_bin_slice returns once the loop is over
bin_finish(st) ==
    IF st.res = "run" THEN store_raw(st.bytes, st.bits, FALSE) ELSE SliceErr(st.res)

\* parse_bin_slice
parse_bin_slice(str) == bin_finish(bin_loop(BinStart, str, 1))

\* make_slice_parser, after the prefix: the content up to '}' or whitespace,
\* decoded (or recovered to None), then '}' (or braces_recovery)
slice_body(s, i, hex) ==
    LET e     == SkipUntil(s, i, Whitespace \cup {"}"})
        r     == IF hex THEN parse_hex_slice(SubSeq(s, i, e - 1))
                 ELSE parse_bin_slice(SubSeq(s, i, e - 1))
        valid == Ch(s, e) = "}"
        e2    == SkipUntil(s, e, {"}", "\n"})
        close == IF valid THEN e + 1 ELSE IF Ch(s, e2) = "}" THEN e2 + 1 ELSE e2
    IN  Ok(close,
           IF r.ok /\ valid THEN SliceV(r) ELSE InvalidV,
           (IF r.ok THEN <<>> ELSE <<Diag("cell_slice")>>)
             \o (IF valid THEN <<>> ELSE <<Diag("cell_slice")>>))

\* cell_slice
cell_slice(s, i) ==
    IF Ch(s, i) = "x" /\ Ch(s, i + 1) = "{" THEN slice_body(s, i + 2, TRUE)
    ELSE IF Ch(s, i) = "b" /\ Ch(s, i + 1) = "{" THEN slice_body(s, i + 2, FALSE)
    ELSE Fail

-----------------------------------------------------------------------------
(* Instructions *)

\* the recovery of the argument separator, skip_then_retry_until(any(),
\* ',' or newline), from position p: give up on ',' or a line break here or
\* at the end of input, else skip one character and retry the separator
RECURSIVE sep_recover(_, _)
sep_recover(s, p) ==
    IF p > Len(s) \/ s[p] = "," \/ s[p] \in Newline THEN Fail
    ELSE LET k == SkipWs(s, p + 1) IN
         IF Ch(s, k) = "," THEN Ok(SkipWs(s, k + 1), <<>>, <<Diag("separator")>>)
         ELSE sep_recover(s, p + 1)

\* just(',').padded() with its recovery
separator(s, j) ==
    LET k == SkipWs(s, j) IN
    IF Ch(s, k) = "," THEN Ok(SkipWs(s, k + 1), <<>>, <<>>)
    ELSE sep_recover(s, j)

\* the closing delimiter of a block, after position q was skipped: the first
\* '}' further on is taken; at the end of input the retried parser recovers
\* with a diagnostic of its own, which skip_then_retry_until does not accept
RECURSIVE close_retry(_, _)
close_retry(s, q) ==
    IF q > Len(s) THEN Fail
    ELSE IF s[q] = "}" THEN Ok(q + 1, <<>>, <<Diag("cont_block")>>)
    ELSE close_retry(s, q + 1)

\* '}' recovered by end(), then by skip_then_retry_until(any(), end())
block_close(s, j) ==
    IF Ch(s, j) = "}" THEN Ok(j + 1, <<>>, <<>>)
    ELSE IF j > Len(s) THEN Ok(j, <<>>, <<Diag("cont_block")>>)
    ELSE close_retry(s, j + 1)

\* The recursive rules of the grammar (recursive(|instr| ..)), one operator
\* with a case per rule:
\*   "instrs"     instr.padded().repeated().collect(): a failed
\*                instr.padded() is rewound, the whitespace it skipped included
\*   "cont_block" '{', the instructions, the closing delimiter
\*   "instr_arg"  the ordered choice of argument forms
\*   "args_rest"  separated_by after the first item: separator then item, as
\*                long as both match; a separator without an item after it
\*                is rewound
\*   "args"       instr_arg.separated_by(separator).collect()
\*   "instr"      instr_ident().padded().then(args)
RECURSIVE grammar(_, _, _)
grammar(rule, s, i) ==
    CASE rule = "instrs" ->
           LET r == grammar("instr", s, SkipWs(s, i)) IN
           IF ~r.ok THEN Ok(i, <<>>, <<>>)
           ELSE LET rest == grammar("instrs", s, SkipWs(s, r.pos)) IN
                Ok(rest.pos, <<r.val>> \o rest.val, r.errs \o rest.errs)
      [] rule = "cont_block" ->
           IF Ch(s, i) # "{" THEN Fail
           ELSE LET body == grammar("instrs", s, i + 1)
                    cl   == block_close(s, body.pos)
                IN  IF cl.ok THEN Ok(cl.pos, body.val, body.errs \o cl.errs) ELSE Fail
      [] rule = "instr_arg" ->
           LET n  == nat(s, i)
               sr == stack_register(s, i)
               cr == control_register(s, i)
               cb == grammar("cont_block", s, i)
           IN  IF n.ok THEN Ok(n.pos, NatV(n.val), <<>>)
               ELSE IF sr.ok THEN sr
               ELSE IF cr.ok THEN cr
               ELSE IF cb.ok THEN Ok(cb.pos, BlockV(cb.val), cb.errs)
               ELSE cell_slice(s, i)
      [] rule = "args_rest" ->
           LET sp == separator(s, i)
               it == grammar("instr_arg", s, sp.pos)
           IN  IF ~sp.ok \/ ~it.ok THEN Ok(i, <<>>, <<>>)
               ELSE LET rest == grammar("args_rest", s, it.pos) IN
                    Ok(rest.pos, <<it.val>> \o rest.val, sp.errs \o it.errs \o rest.errs)
      [] rule = "args" ->
           LET it == grammar("instr_arg", s, i) IN
           IF ~it.ok THEN Ok(i, <<>>, <<>>)
           ELSE LET rest == grammar("args_rest", s, it.pos) IN
                Ok(rest.pos, <<it.val>> \o rest.val, it.errs \o rest.errs)
      [] rule = "instr" ->
           LET id == instr_ident(s, SkipWs(s, i)) IN
           IF ~id.ok THEN Fail
           ELSE LET a == grammar("args", s, SkipWs(s, id.pos)) IN
                Ok(a.pos, Instr(id.val, a.val), a.errs)

\* instr
instr(s, i) == grammar("instr", s, i)

\* cont_block
cont_block(s, i) == grammar("cont_block", s, i)

\* parser
parser(s, i) == grammar("instrs", s, i)

\* parse: the parser, then the end of input; an output and the diagnostics
parse(s) ==
    LET r == parser(s, 1) IN
    IF r.pos > Len(s)
    THEN [some |-> TRUE, ast |-> r.val, errors |-> r.errs]
    ELSE [some |-> FALSE, ast |-> <<>>, errors |-> r.errs \o <<Diag("parse")>>]

-----------------------------------------------------------------------------
(* Bounds of the model *)

\* the longest free text, in characters
MaxLen == 4

\* the longest argument text, in characters
MaxArgLen == 4

\* the most instructions a generated program holds
MaxInstrs == 3

\* the longest text handed to parse_hex_slice
MaxHexLen == 4

\* the longest repeating unit of a binary literal
MaxPatLen == 2

-----------------------------------------------------------------------------
(* The state machine: a text is typed or generated, then handed to parse   *)
(* (or to a slice decoder)                                                 *)

NoOutput == [some |-> FALSE, ast |-> <<>>]

NoCell == SliceErr("none")

Idle == pat = <<>> /\ bits = 0 /\ bytes = <<>> /\ cell = NoCell

\* the characters of a free text
TextChars == {"A", "a", " ", "\n", "{", "}", ",", "1"}

\* the characters of an argument text
ArgChars == {"-", "0", "1", "6", "x", "b", "c", ","}

\* the characters of a hex slice text
HexChars == {"0", "1", "8", "f", "_", "g"}

\* the characters of a binary slice text
BinChars == {"0", "1", "2"}

Init ==
    /\ src = <<>> /\ prog = <<>> /\ pc = "input"
    /\ output = NoOutput /\ errors = <<>> /\ Idle

\* one more character of the text
Feed(chars, max) ==
    /\ pc = "input" /\ Len(src) < max
    /\ \E c \in chars : src' = Append(src, c)
    /\ UNCHANGED <<prog, pc, output, errors, pat, bits, bytes, cell>>

\* parse(src)
Parse ==
    /\ pc = "input"
    /\ LET r == parse(src) IN
         /\ output' = [some |-> r.some, ast |-> r.ast]
         /\ errors' = r.errors
    /\ pc' = "done"
    /\ UNCHANGED <<src, prog, pat, bits, bytes, cell>>

FeedText == Feed(TextChars, MaxLen)

Next == FeedText \/ Parse

Spec == Init /\ [][Next]_vars

-----------------------------------------------------------------------------
(* An instruction "A" with one typed argument text *)

ArgHead == <<"A", " ">>

InitArg ==
    /\ src = ArgHead /\ prog = <<>> /\ pc = "input"
    /\ output = NoOutput /\ errors = <<>> /\ Idle

FeedArg == Feed(ArgChars, Len(ArgHead) + MaxArgLen)

NextArg == FeedArg \/ Parse

SpecArg == InitArg /\ [][NextArg]_vars

-----------------------------------------------------------------------------
(* A generator of the grammar: the program and its text grow together      *)

DigitChar(d) ==
    CASE d = 0 -> "0" [] d = 1 -> "1" [] d = 2 -> "2" [] d = 3 -> "3"
      [] d = 4 -> "4" [] d = 5 -> "5" [] d = 6 -> "6" [] d = 7 -> "7"
      [] d = 8 -> "8" [] d = 9 -> "9"

\* the decimal digits of n >= 0
RECURSIVE PrintNat(_)
PrintNat(n) ==
    IF n < 10 THEN <<DigitChar(n)>> ELSE Append(PrintNat(n \div 10), DigitChar(n % 10))

\* the text of an argument value
PrintArg(a) ==
    CASE a.kind = "Nat"  -> IF a.n < 0 THEN <<"-">> \o PrintNat(0 - a.n) ELSE PrintNat(a.n)
      [] a.kind = "SReg" -> IF a.n < 0 THEN <<"s", "(", "-">> \o PrintNat(0 - a.n) \o <<")">>
                            ELSE <<"s">> \o PrintNat(a.n)
      [] a.kind = "CReg" -> <<"c">> \o PrintNat(a.n)

\* the arguments, separated by commas
RECURSIVE PrintArgs(_)
PrintArgs(as) ==
    IF Len(as) = 0 THEN <<>>
    ELSE IF Len(as) = 1 THEN PrintArg(as[1])
    ELSE PrintArg(as[1]) \o <<",">> \o PrintArgs(Tail(as))

\* the text of an instruction: the mnemonic, then a space and the arguments
PrintInstr(in) ==
    in.ident \o (IF Len(in.args) = 0 THEN <<>> ELSE <<" ">> \o PrintArgs(in.args))

GenMnemonics == {<<"B">>, <<"2">>}

GenArgLists == {<<>>, <<NatV(1)>>, <<SRegV(-1), NatV(2)>>}

GenSeparators == {" ", "\n"}

\* an instruction whose only argument is a malformed stack register
BadSReg == Instr(<<"A">>, <<InvalidV>>)

BadSRegOpen == <<"A", " ", "s", "(", "a">>

BadSRegClosed == <<"A", " ", "s", "(", "a", ")">>

InitGen ==
    /\ \/ src = <<>> /\ prog = <<>>
       \/ src = BadSRegOpen /\ prog = <<BadSReg>>
       \/ src = BadSRegClosed /\ prog = <<BadSReg>>
    /\ pc = "input" /\ output = NoOutput /\ errors = <<>> /\ Idle

\* the generator emits one more instruction, after whitespace
GenInstr ==
    /\ pc = "input" /\ Len(prog) < MaxInstrs
    /\ \E m \in GenMnemonics, as \in GenArgLists, sep \in GenSeparators :
         /\ prog' = Append(prog, Instr(m, as))
         /\ src' = src \o (IF Len(src) = 0 THEN <<>> ELSE <<sep>>) \o PrintInstr(Instr(m, as))
    /\ UNCHANGED <<pc, output, errors, pat, bits, bytes, cell>>

NextGen == GenInstr \/ Parse

SpecGen == InitGen /\ [][NextGen]_vars

-----------------------------------------------------------------------------
(* parse_hex_slice on a typed text *)

InitHex == Init

FeedHex == Feed(HexChars, MaxHexLen)

HexSlice ==
    /\ pc = "input"
    /\ cell' = parse_hex_slice(src)
    /\ pc' = "done"
    /\ UNCHANGED <<src, prog, output, errors, pat, bits, bytes>>

NextHex == FeedHex \/ HexSlice

SpecHex == InitHex /\ [][NextHex]_vars

-----------------------------------------------------------------------------
(* parse_bin_slice, one iteration of its loop at a time.  The literal is   *)
(* the repetition of the unit pat; while the loop runs, the characters     *)
(* consumed are the first `bits` ones.                                     *)

RECURSIVE Units(_)
Units(n) ==
    IF n = 0 THEN {} 
    ELSE IF n = 1 THEN {<<c>> : c \in BinChars}
    ELSE Units(n - 1) \cup {Append(u, c) : u \in {v \in Units(n - 1) : Len(v) = n - 1}, c \in BinChars}

\* character k (from 0) of the literal
LitChar(k) == pat[(k % Len(pat)) + 1]

InitBin ==
    /\ src = <<>> /\ prog = <<>> /\ output = NoOutput /\ errors = <<>>
    /\ pat \in Units(MaxPatLen)
    /\ bits = BinStart.bits /\ bytes = BinStart.bytes /\ cell = NoCell
    /\ pc = "loop"

\* the literal has a next character: one iteration
BinStep ==
    /\ pc = "loop"
    /\ LET st == bin_step([bits |-> bits, bytes |-> bytes, res |-> "run"], LitChar(bits)) IN
         /\ bits' = st.bits
         /\ bytes' = st.bytes
         /\ pc' = IF st.res = "run" THEN "loop" ELSE IF st.res = "panic" THEN "panic" ELSE "done"
         /\ cell' = IF st.res = "run" THEN cell ELSE bin_finish(st)
    /\ UNCHANGED <<src, prog, output, errors, pat>>

\* the literal ends here: the cell is built
BinEnd ==
    /\ pc = "loop"
    /\ cell' = bin_finish([bits |-> bits, bytes |-> bytes, res |-> "run"])
    /\ pc' = "done"
    /\ UNCHANGED <<src, prog, output, errors, pat, bits, bytes>>

NextBin == BinStep \/ BinEnd

SpecBin == InitBin /\ [][NextBin]_vars

-----------------------------------------------------------------------------
(* Properties of parse *)

AllWs(s) == \A k \in 1..Len(s) : s[k] \in Whitespace

\* C1: whatever the text, parse returns an AST; what it could not parse is
\* reported as diagnostics only, never as a result without an AST.
C1_AlwaysAst == pc = "done" => output.some

\* C3: a text with no instruction, empty or made of whitespace only, parses
\* to the empty instruction sequence with no diagnostics.
C3_NoInstruction ==
    pc = "done" /\ AllWs(src) => output.some /\ output.ast = <<>> /\ errors = <<>>

\* the text after a head
After(head) == SubSeq(src, Len(head) + 1, Len(src))

HasHead(head) == Len(src) >= Len(head) /\ SubSeq(src, 1, Len(head)) = head

AllDigits(s, radix) == Len(s) >= 1 /\ \A k \in 1..Len(s) : is_digit(s[k], radix)

\* the number a digit run denotes
RECURSIVE RunVal(_, _)
RunVal(s, radix) ==
    IF Len(s) = 0 THEN 0
    ELSE RunVal(SubSeq(s, 1, Len(s) - 1), radix) * radix + DigitVal(s[Len(s)])

\* an unsigned literal: 0x and hex digits, 0b and binary digits, or decimal
\* digits; its radix and digit run
LitRadix(s) ==
    IF Len(s) >= 3 /\ s[1] = "0" /\ s[2] = "x" THEN 16
    ELSE IF Len(s) >= 3 /\ s[1] = "0" /\ s[2] = "b" THEN 2
    ELSE 10

LitRun(s) == IF LitRadix(s) = 10 THEN s ELSE SubSeq(s, 3, Len(s))

IsUnsigned(s) == AllDigits(LitRun(s), LitRadix(s))

Unsign(s) == IF Len(s) >= 1 /\ s[1] = "-" THEN Tail(s) ELSE s

IsNumLiteral(s) == IsUnsigned(Unsign(s))

NumLiteralVal(s) ==
    LET u == Unsign(s)
        v == RunVal(LitRun(u), LitRadix(u))
    IN  IF Len(u) < Len(s) THEN 0 - v ELSE v

\* C4: a numeric literal (optional '-', then 0x hex digits, 0b binary
\* digits or decimal digits) is consumed whole as one argument, Natural(v)
\* with v the value of the digit run in its radix, negated after '-'.
C4_NumLiteral ==
    pc = "done" /\ HasHead(ArgHead) /\ IsNumLiteral(After(ArgHead))
        => /\ output.some
           /\ output.ast = <<Instr(<<"A">>, <<NatV(NumLiteralVal(After(ArgHead)))>>)>>

\* the first argument text: up to the first comma
FirstArg(s) == SubSeq(s, 1, SkipUntil(s, 1, {","}) - 1)

RestArgs(s) == SubSeq(s, SkipUntil(s, 1, {","}), Len(s))

\* what follows 'c' in a control-register argument, and the value claimed
CRegExpected(run) ==
    IF AllDigits(run, 10) /\ creg_valid(RunVal(run, 10)) THEN CRegV(RunVal(run, 10))
    ELSE InvalidV

\* C5: 'c' and decimal digits give ControlRegister(n) only for n among
\* 0,1,2,3,4,5,7; for 6, for n >= 8 and for malformed content the argument
\* is Invalid with a control-register diagnostic, the input is consumed up
\* to the next comma, and the following argument is still parsed.
C5_ControlRegister ==
    LET a    == After(ArgHead)
        run  == Tail(FirstArg(a))
        rest == RestArgs(a)
        exp  == CRegExpected(run)
    IN  pc = "done" /\ HasHead(ArgHead) /\ Len(a) >= 1 /\ a[1] = "c"
          /\ (AllDigits(run, 10) \/ Len(run) = 0 \/ ~is_digit(run[1], 10))
          /\ (Len(rest) = 0 \/ (Len(rest) = 2 /\ rest[2] \in {"0", "1", "6"}))
        => /\ output.some
           /\ output.ast = <<Instr(<<"A">>,
                  <<exp>> \o (IF Len(rest) = 0 THEN <<>> ELSE <<NatV(DigitVal(rest[2]))>>))>>
           /\ (exp = InvalidV <=> \E k \in 1..Len(errors) : errors[k] = Diag("control_register"))

BlockHead == <<"A", "{">>

\* C6: a block opened with '{' that the input ends without closing is
\* closed by the end of input: the enclosing instruction is produced, with
\* a Block holding the inner instructions in order.
C6_ImplicitClose ==
    LET body  == After(BlockHead)
        inner == IF AllWs(body) THEN <<>> ELSE parse(body).ast
    IN  pc = "done" /\ HasHead(BlockHead)
          /\ (\A k \in 1..Len(body) : body[k] \notin {"{", "}"})
          /\ (AllWs(body) \/ parse(body).some)
        => /\ output.some
           /\ output.ast = <<Instr(<<"A">>, <<BlockV(inner)>>)>>

\* C2: the text of a generated program parses with no diagnostics to the
\* program itself.
C2_RoundTrip ==
    pc = "done" /\ (Len(prog) = 0 \/ prog[1] # BadSReg)
        => output.some /\ errors = <<>> /\ output.ast = prog

\* where the recovery of the malformed "s(" register stops: after the next
\* ')' or at the next line break
SRegRest ==
    LET r == SkipUntil(src, Len(BadSRegOpen), {")", "\n"}) IN
    SubSeq(src, IF Ch(src, r) = ")" THEN r + 1 ELSE r, Len(src))

\* C7: a malformed stack register "s(a" is one Invalid argument, and the
\* instructions after the point its recovery stops at are parsed as they
\* are on their own.
C7_SRegRecovery ==
    pc = "done" /\ Len(prog) >= 1 /\ prog[1] = BadSReg /\ parse(SRegRest).some
        => output.some /\ output.ast = <<BadSReg>> \o parse(SRegRest).ast

-----------------------------------------------------------------------------
(* Properties of parse_hex_slice *)

HexTag(s) == Len(s) > 0 /\ s[Len(s)] = "_"

\* the digit run: the text without the trailing '_'
HexRun(s) == IF HexTag(s) THEN SubSeq(s, 1, Len(s) - 1) ELSE s

HexAccepted(s) == \A k \in 1..Len(HexRun(s)) : is_hex_char(HexRun(s)[k])

NFull(s) == Len(HexRun(s)) \div 2

NHalf(s) == Len(HexRun(s)) % 2

NBytes(s) == NFull(s) + NHalf(s)

\* byte k of the buffer, the odd trailing digit in the high nibble
RunByte(s, k) ==
    16 * DigitVal(HexRun(s)[2 * k - 1])
      + (IF 2 * k <= Len(HexRun(s)) THEN DigitVal(HexRun(s)[2 * k]) ELSE 0)

\* bit k (from 0) of the buffer
RunBit(s, k) == (RunByte(s, (k \div 8) + 1) \div Pow2(7 - (k % 8))) % 2

\* the number of all-zero bytes at the end of the buffer
ZeroTail(s) ==
    CHOOSE z \in 0..NBytes(s) :
        /\ \A k \in (NBytes(s) - z + 1)..NBytes(s) : RunByte(s, k) = 0
        /\ (z < NBytes(s) => RunByte(s, NBytes(s) - z) # 0)

\* the number of trailing zero bits of a non-zero byte
ZeroBits(b) == CHOOSE j \in 0..7 : b % Pow2(j) = 0 /\ (b \div Pow2(j)) % 2 = 1

\* what the tag-mode scan subtracts
TagDrop(s) ==
    8 * ZeroTail(s)
      + (IF ZeroTail(s) = NBytes(s) THEN 0
         ELSE 1 + ZeroBits(RunByte(s, NBytes(s) - ZeroTail(s))))

\* C8, as stated: the bit count starts at 8 per full byte plus 4 for the
\* half-byte, and in tag mode the scan's subtraction is taken from that.
C8_BitLengthAsStated ==
    pc = "done" /\ cell.ok
        => cell.bits = 8 * NFull(src) + 4 * NHalf(src)
                         - (IF HexTag(src) THEN TagDrop(src) ELSE 0)

\* C8, amended: without a tag the cell holds 8 bits per full byte plus 4 for
\* the half-byte; in tag mode the count starts at 8 per byte of the buffer,
\* the half-byte counted as a whole byte, and the scan subtracts 8 per
\* all-zero byte from the end and 1 plus the trailing zero bits of the first
\* non-zero byte.  The cell holds exactly these leading bits of the buffer.
C8_BitLength ==
    pc = "done" /\ cell.ok
        => /\ cell.bits = (IF HexTag(src) THEN 8 * NBytes(src) - TagDrop(src)
                           ELSE 8 * NFull(src) + 4 * NHalf(src))
           /\ Len(cell.data) = cell.bits
           /\ \A k \in 1..cell.bits : cell.data[k] = RunBit(src, k - 1)

\* a tag-mode text with a half-byte was decoded to a non-empty cell
C8_Witness ==
    pc = "done" /\ cell.ok /\ HexTag(src) /\ NHalf(src) = 1 /\ cell.bits > 0

\* C10: in tag mode the unsigned bit count never goes below zero: every
\* text of hex digits is decoded, to between 0 and 8 bits per byte of the
\* buffer, and to exactly 0 bits when all bytes are zero or there are none.
C10_NoUnderflow ==
    pc = "done" /\ HexTag(src) /\ HexAccepted(src)
        => /\ ~cell.underflow
           /\ cell.ok
           /\ 0 <= cell.bits /\ cell.bits <= 8 * NBytes(src)
           /\ (ZeroTail(src) = NBytes(src) => cell.bits = 0)

\* a tag-mode text of zero digits only was decoded
C10_Witness ==
    pc = "done" /\ HexTag(src) /\ HexAccepted(src) /\ NBytes(src) > 0
      /\ ZeroTail(src) = NBytes(src) /\ cell.ok /\ cell.bits = 0

-----------------------------------------------------------------------------
(* Properties of parse_bin_slice *)

BitOf(c) == IF c = "1" THEN 1 ELSE 0

====
